---- MODULE Spec2Model ----
(***************************************************************************)
(* Model of the pagination, polling and template-import retry loops of the *)
(* V7 Go client (v7_cli/core/client.py, v7_cli/sdk.py, v7_cli/core/types.py)*)
(*                                                                         *)
(* Three independent state machines share the module, one specification    *)
(* each: SpecPaginate (APIClient.paginate), SpecWait (the three wait       *)
(* loops) and SpecImport (TemplateOperations.import_template).             *)
(***************************************************************************)
EXTENDS Integers, Sequences, FiniteSets, TLC

(***************************************************************************)
(* Bounds of the model.                                                    *)
(***************************************************************************)
MaxPageLen == 2

MaxTotal == 4

MaxRequests == 3

MaxPollInterval == 2

MaxTimeout == 5

MaxFetchDelay == 1

MaxProjects == 2

MaxRetries == 2

MaxCreated == 2

MaxCalls == 2

MaxInvocations == 2

(***************************************************************************)
(* Values shared by the three machines.                                    *)
(***************************************************************************)
\* Python's None.
None == "<None>"

\* The records a list endpoint can hold.
Items == {"a", "b"}

RECURSIVE SeqsUpTo(_, _)
SeqsUpTo(S, n) ==
    IF n = 0 THEN {<<>>}
    ELSE LET shorter == SeqsUpTo(S, n - 1)
         IN  shorter \cup {Append(s, x) : s \in {t \in shorter : Len(t) = n - 1}, x \in S}

(***************************************************************************)
(* Transport errors (client.py APIError raised by _make_request).          *)
(***************************************************************************)
\* No error has been raised.
NoError == [kind |-> "none", message |-> "", status |-> 0]

TransportErrors ==
    { [kind |-> "APIError", message |-> "Connection error: refused", status |-> 0],
      [kind |-> "APIError", message |-> "Internal Server Error", status |-> 500] }

WorkspaceRequiredError ==
    [kind |-> "APIError",
     message |-> "Workspace ID required. Set V7_GO_WORKSPACE_ID env var or use --workspace flag",
     status |-> 0]

(***************************************************************************)
(* APIClient.paginate                                                      *)
(***************************************************************************)
VARIABLES
    pg_pc,         \* position of the generator
    pg_workspace,  \* whether a workspace id is configured
    pg_parser,     \* the parser argument: None or the name of a parser
    pg_offset,     \* local variable offset
    pg_result,     \* local variable result (the last response)
    pg_i,          \* number of items of the current page already yielded
    pg_yielded,    \* everything the consumer received so far
    pg_requests,   \* the offsets of the GET requests issued, in order
    pg_served,     \* the responses the server gave, in order
    pg_failed,     \* the error the transport raised, NoError if none
    pg_raised      \* the error that left the generator, NoError if none

pg_vars == <<pg_pc, pg_workspace, pg_parser, pg_offset, pg_result, pg_i,
             pg_yielded, pg_requests, pg_served, pg_failed, pg_raised>>

\* What the server may report as metadata.total_count.
TotalCounts == -1 .. MaxTotal

\* A list response {"data": [...], "metadata": {"total_count": N}}; each key may
\* be missing (has_* false, the field then holds a filler that is never read).
Responses ==
    {r \in [has_data : BOOLEAN, data : SeqsUpTo(Items, MaxPageLen),
            has_metadata : BOOLEAN, has_total_count : BOOLEAN, total_count : TotalCounts] :
        /\ ~r.has_data => r.data = <<>>
        /\ ~r.has_metadata => ~r.has_total_count
        /\ ~r.has_total_count => r.total_count = 0}

\* The value of result before the first request.
NoResult ==
    [has_data |-> FALSE, data |-> <<>>, has_metadata |-> FALSE, has_total_count |-> FALSE, total_count |-> 0]

\* result.get("data", [])
GetData(result) == IF result.has_data THEN result.data ELSE <<>>

\* result.get("metadata", {}).get("total_count", 0)
GetTotal(result) ==
    IF result.has_metadata /\ result.has_total_count THEN result.total_count ELSE 0

\* parser(item) if parser else item
ApplyParser(parser, item) == IF parser = None THEN item ELSE parser \o "(" \o item \o ")"

\* A faulty YieldItem that C5 must reject: an item already yielded is dropped.
YieldItem_Dedupe(yielded, parser, item) ==
    IF \E k \in 1..Len(yielded) : yielded[k] = ApplyParser(parser, item)
    THEN yielded
    ELSE Append(yielded, ApplyParser(parser, item))

\* yield parser(item) / yield item: the consumer receives one more value
YieldItem(yielded, parser, item) == Append(yielded, ApplyParser(parser, item))

\* A faulty NextOffset that C3 must reject: the cursor does not advance.
NextOffset_Stuck(offset, data) == offset

\* offset += len(data)
NextOffset(offset, data) == offset + Len(data)

\* A faulty PaginateBreaks that C29 must reject: total_count is not read.
PaginateBreaks_EmptyOnly(offset, total, data) == Len(data) = 0

\* A faulty PaginateBreaks that C4 must reject: the empty-page guard is missing.
PaginateBreaks_NoEmptyGuard(offset, total, data) == offset >= total

\* if offset >= total or not data: break
PaginateBreaks(offset, total, data) == offset >= total \/ Len(data) = 0

PaginateInit ==
    /\ pg_pc = "start"
    /\ pg_workspace \in BOOLEAN
    /\ pg_parser \in {None, "parse"}
    /\ pg_offset = 0
    /\ pg_result = NoResult
    /\ pg_i = 0
    /\ pg_yielded = <<>>
    /\ pg_requests = <<>>
    /\ pg_served = <<>>
    /\ pg_failed = NoError
    /\ pg_raised = NoError

\* ws_path = self.workspace_path(workspace_id); offset = 0
paginate_start ==
    /\ pg_pc = "start"
    /\ IF pg_workspace
       THEN /\ pg_pc' = "get"
            /\ pg_raised' = NoError
       ELSE /\ pg_pc' = "raised"
            /\ pg_raised' = WorkspaceRequiredError
    /\ pg_offset' = 0
    /\ UNCHANGED <<pg_workspace, pg_parser, pg_result, pg_i, pg_yielded,
                   pg_requests, pg_served, pg_failed>>

\* result = self.get(path, {"limit": limit, "offset": offset}): the server answers
paginate_get_ok ==
    /\ pg_pc = "get"
    /\ Len(pg_requests) < MaxRequests
    /\ \E r \in Responses :
          /\ pg_result' = r
          /\ pg_served' = Append(pg_served, r)
    /\ pg_requests' = Append(pg_requests, pg_offset)
    /\ pg_i' = 0
    /\ pg_pc' = "yield"
    /\ UNCHANGED <<pg_workspace, pg_parser, pg_offset, pg_yielded, pg_failed, pg_raised>>

\* A faulty paginate_get_fail that C6 must reject: a failed request ends the
\* iteration normally.
paginate_get_fail_Swallowed ==
    /\ pg_pc = "get"
    /\ Len(pg_requests) < MaxRequests
    /\ \E e \in TransportErrors : pg_failed' = e
    /\ pg_requests' = Append(pg_requests, pg_offset)
    /\ pg_pc' = "done"
    /\ UNCHANGED <<pg_workspace, pg_parser, pg_offset, pg_result, pg_i,
                   pg_yielded, pg_served, pg_raised>>

\* result = self.get(...): the request fails and the error leaves the generator
paginate_get_fail ==
    /\ pg_pc = "get"
    /\ Len(pg_requests) < MaxRequests
    /\ \E e \in TransportErrors :
          /\ pg_failed' = e
          /\ pg_raised' = e
    /\ pg_requests' = Append(pg_requests, pg_offset)
    /\ pg_pc' = "raised"
    /\ UNCHANGED <<pg_workspace, pg_parser, pg_offset, pg_result, pg_i,
                   pg_yielded, pg_served>>

\* for item in data: yield parser(item) / yield item
paginate_yield ==
    /\ pg_pc = "yield"
    /\ pg_i < Len(GetData(pg_result))
    /\ pg_yielded' = YieldItem(pg_yielded, pg_parser, GetData(pg_result)[pg_i + 1])
    /\ pg_i' = pg_i + 1
    /\ UNCHANGED <<pg_pc, pg_workspace, pg_parser, pg_offset, pg_result,
                   pg_requests, pg_served, pg_failed, pg_raised>>

\* after the for loop: total, offset += len(data), break or next iteration
paginate_advance ==
    /\ pg_pc = "yield"
    /\ pg_i = Len(GetData(pg_result))
    /\ pg_offset' = NextOffset(pg_offset, GetData(pg_result))
    /\ pg_pc' = IF PaginateBreaks(pg_offset', GetTotal(pg_result), GetData(pg_result))
                THEN "done" ELSE "get"
    /\ UNCHANGED <<pg_workspace, pg_parser, pg_result, pg_i, pg_yielded,
                   pg_requests, pg_served, pg_failed, pg_raised>>

\* The generator is not in use (the state of this machine while another runs).
PaginateParked ==
    /\ pg_pc = "parked"
    /\ pg_workspace = FALSE
    /\ pg_parser = None
    /\ pg_offset = 0
    /\ pg_result = NoResult
    /\ pg_i = 0
    /\ pg_yielded = <<>>
    /\ pg_requests = <<>>
    /\ pg_served = <<>>
    /\ pg_failed = NoError
    /\ pg_raised = NoError

\* list(self.paginate(...)): the list paginate_all returns once the generator ends
PaginateAllResult == pg_yielded

(***************************************************************************)
(* Properties of APIClient.paginate                                        *)
(***************************************************************************)
\* The number of items of the k-th served page.
PageLen(k) == Len(GetData(pg_served[k]))

\* The data arrays of the first n served pages, concatenated in fetch order.
RECURSIVE ConcatPages(_)
ConcatPages(n) == IF n = 0 THEN <<>> ELSE ConcatPages(n - 1) \o GetData(pg_served[n])

\* The values a consumer receives for a sequence of items.
Parsed(items) == [k \in 1..Len(items) |-> ApplyParser(pg_parser, items[k])]

\* The k-th served page reports total_count = t.
ReportsTotal(k, t) ==
    /\ pg_served[k].has_metadata
    /\ pg_served[k].has_total_count
    /\ pg_served[k].total_count = t

\* The responses so far are the beginning of the script: pages of 2, 2 and 0
\* items, each reporting total_count = 0.
ZeroTotalScript == <<2, 2, 0>>

FollowsZeroTotalScript ==
    /\ Len(pg_served) <= Len(ZeroTotalScript)
    /\ \A k \in 1..Len(pg_served) : PageLen(k) = ZeroTotalScript[k] /\ ReportsTotal(k, 0)

\* C1: against a server answering with pages of 2, 2 and 0 items that all report
\* total_count = 0, a finished iteration has issued three requests and yielded
\* exactly 4 items.
C1_ZeroTotalYieldsFour ==
    (pg_pc = "done" /\ FollowsZeroTotalScript)
        => (Len(pg_requests) = 3 /\ Len(pg_yielded) = 4)

\* The responses so far are the beginning of a script of strictly decreasing
\* non-zero page sizes that ends with an empty page.
FollowsDecreasingScript ==
    \A k \in 1..Len(pg_served) :
        /\ k < Len(pg_served) => PageLen(k) > 0
        /\ (k > 1 /\ PageLen(k) > 0) => PageLen(k) < PageLen(k - 1)

\* C2: against a server whose pages have strictly decreasing non-zero sizes
\* followed by an empty page, whatever total_count it reports, a finished
\* iteration has yielded all the non-empty pages of the script in order: it
\* yielded the pages it fetched, and the script has no non-empty page left (the
\* last fetched page has at most one item, so only the empty page can follow).
C2_DecreasingPagesAllYielded ==
    (pg_pc = "done" /\ FollowsDecreasingScript)
        => /\ Len(pg_served) > 0
           /\ PageLen(Len(pg_served)) <= 1
           /\ pg_yielded = Parsed(ConcatPages(Len(pg_served)))

\* C3: the first request carries offset 0, each later request carries the
\* previous offset plus the number of items the previous request returned, and
\* no offset is requested twice.
C3_OffsetMonotonic ==
    /\ Len(pg_requests) > 0 => pg_requests[1] = 0
    /\ \A k \in 1..(Len(pg_requests) - 1) :
          /\ pg_requests[k + 1] = pg_requests[k] + PageLen(k)
          /\ pg_requests[k + 1] >= pg_requests[k]
    /\ \A i, j \in 1..Len(pg_requests) : i < j => pg_requests[i] /= pg_requests[j]

C3_Witness ==
    /\ pg_pc = "done"
    /\ Len(pg_requests) = 3
    /\ pg_requests = <<0, 2, 3>>

\* C4: a page with zero items is never followed by another request, and the
\* iteration ends there, whatever total_count was reported.
C4_EmptyPageStops ==
    /\ \A k \in 1..Len(pg_served) :
          PageLen(k) = 0 => (k = Len(pg_served) /\ Len(pg_requests) = k)
    /\ (Len(pg_served) > 0 /\ PageLen(Len(pg_served)) = 0)
          => pg_pc \in {"yield", "done"}
    /\ (Len(pg_served) > 0 /\ PageLen(Len(pg_served)) = 0 /\ pg_pc = "yield")
          => (pg_i = 0 /\ ENABLED paginate_advance /\ ~ENABLED paginate_yield)

C4_Witness ==
    /\ pg_pc = "done"
    /\ Len(pg_served) = 2
    /\ PageLen(2) = 0
    /\ ReportsTotal(1, MaxTotal)
    /\ ReportsTotal(2, MaxTotal)
    /\ pg_offset < MaxTotal

\* C5: what the consumer has received is the concatenation, in fetch order, of
\* the data arrays of the pages fetched so far (the current page up to the item
\* reached), each item passed through the parser; nothing is reordered or
\* dropped, and paginate_all returns exactly that list.
C5_YieldsConcatenation ==
    /\ pg_pc = "yield" =>
          pg_yielded = Parsed(ConcatPages(Len(pg_served) - 1)
                              \o SubSeq(GetData(pg_result), 1, pg_i))
    /\ pg_pc /= "yield" => pg_yielded = Parsed(ConcatPages(Len(pg_served)))
    /\ pg_pc = "done" => PaginateAllResult = Parsed(ConcatPages(Len(pg_served)))

C5_Witness ==
    /\ pg_pc = "done"
    /\ Len(pg_served) = 2
    /\ GetData(pg_served[1]) = <<"b", "a">>
    /\ GetData(pg_served[2]) = <<"b">>
    /\ PaginateAllResult = Parsed(<<"b", "a", "b">>)

\* C6: when a page request fails, that error leaves the generator unchanged, no
\* further request is issued, the items of all earlier pages have been yielded,
\* and the iteration does not end normally.
C6_FailurePropagates ==
    pg_failed /= NoError =>
        /\ pg_pc = "raised"
        /\ pg_raised = pg_failed
        /\ Len(pg_requests) = Len(pg_served) + 1
        /\ pg_yielded = Parsed(ConcatPages(Len(pg_served)))

C6_Witness ==
    /\ pg_pc = "raised"
    /\ pg_failed \in TransportErrors
    /\ Len(pg_requests) = 3
    /\ Len(pg_yielded) = 3

Min(a, b) == IF a < b THEN a ELSE b

Max(a, b) == IF a > b THEN a ELSE b

\* ceil(n / l)
CeilDiv(n, l) == (n + l - 1) \div l

\* The responses so far are those of an honest server holding n items and
\* asked with limit l: every response has data and reports total_count = n,
\* and the response to a request with offset o holds the items o .. min(o+l, n)-1.
\* The offsets requested never repeat and each is the number of items served
\* before it, so the pages are consecutive slices of one list, which is the
\* concatenation of the pages once n items were served.
HonestServer(n, l) ==
    \A k \in 1..Len(pg_served) :
        /\ pg_served[k].has_data
        /\ ReportsTotal(k, n)
        /\ PageLen(k) = Min(l, Max(0, n - pg_requests[k]))

\* C29: against an honest server holding N items and asked with limit L,
\* paginate_all returns the N items once each in server order, after exactly
\* max(1, ceil(N / L)) requests, none of which returned an empty page when N > 0;
\* it never makes more requests than that.
C29_HonestServerExactRequests ==
    \A n \in 0..MaxTotal, l \in 1..MaxPageLen :
        (HonestServer(n, l) /\ pg_failed = NoError)
            => /\ Len(pg_requests) <= Max(1, CeilDiv(n, l))
               /\ pg_pc = "done"
                     => /\ Len(PaginateAllResult) = n
                        /\ PaginateAllResult = Parsed(ConcatPages(Len(pg_served)))
                        /\ Len(pg_requests) = Max(1, CeilDiv(n, l))
                        /\ n > 0 => \A k \in 1..Len(pg_served) : PageLen(k) > 0

\* 3 items with limit 2: two requests, pages of 2 and 1 items
C29_Witness ==
    /\ pg_pc = "done"
    /\ HonestServer(3, 2)
    /\ Len(pg_requests) = 2
    /\ PageLen(2) = 1
    /\ Len(PaginateAllResult) = 3

\* The server has returned an empty page or failed a request.
ServerEnded ==
    \/ Len(pg_served) > 0 /\ PageLen(Len(pg_served)) = 0
    \/ pg_failed /= NoError

\* The iteration is over: the generator is exhausted or an error left it.
PaginateEnded == pg_pc \in {"done", "raised"}

\* C28: whatever total_count values the server reports (zero, too small, too
\* large, changing between pages, absent), once the server has returned an
\* empty page or failed a request the iteration ends, and no request follows.
C28_Terminates == ServerEnded ~> PaginateEnded

\* total_count too large, then changing, then absent on the empty page that
\* ends the iteration
C28_Witness ==
    /\ pg_pc = "done"
    /\ Len(pg_served) = 3
    /\ Len(pg_requests) = 3
    /\ ReportsTotal(1, MaxTotal)
    /\ ReportsTotal(2, MaxTotal - 1)
    /\ PageLen(3) = 0
    /\ ~pg_served[3].has_total_count

(***************************************************************************)
(* The wait loops: AgentOperations.wait_for_plan,                          *)
(* AgentOperations.wait_for_completion, ExportOperations.wait_for_completion *)
(* Time is counted in ticks of half a second.                              *)
(***************************************************************************)
VARIABLES
    w_kind,           \* which of the three wait loops runs
    w_poll_interval,  \* argument poll_interval, in ticks
    w_timeout,        \* argument timeout, in ticks
    w_pc,             \* position in the loop
    w_now,            \* time.time()
    w_start,          \* local variable start
    w_session,        \* local variable session / export: the last polled resource
    w_polled,         \* the resources the status fetches returned, in order
    w_sleeps,         \* number of time.sleep(poll_interval) calls made
    w_fetch_time,     \* total time spent inside status fetches
    w_returned,       \* the resource the wait returned
    w_error           \* the error the wait raised, NoWaitError if none

w_vars == <<w_kind, w_poll_interval, w_timeout, w_pc, w_now, w_start, w_session,
            w_polled, w_sleeps, w_fetch_time, w_returned, w_error>>

WaitKinds == {"wait_for_plan", "agent_wait_for_completion", "export_wait_for_completion"}

SessionStatuses == {"in_progress", "awaiting_confirmation", "completed", "error"}

ExportStatuses == {"in_progress", "completed", "error"}

ErrorMessages == {None, "", "boom"}

DownloadUrls == {None, "", "https://files/export.csv"}

\* a or b
PyOr(a, b) == IF a = None \/ a = "" THEN b ELSE a

\* AgentBuilderSession.from_dict: the fields the wait loops read. A session has
\* no download_url. The server sets error_message on failed resources only.
Sessions ==
    {r \in [status : SessionStatuses, error_message : ErrorMessages, download_url : {None}] :
        r.status /= "error" => r.error_message = None}

\* The export dicts of the API: "download_url" and "url" may be missing (None).
\* The server sets error_message on failed exports only and a download
\* reference on completed exports only.
ExportDicts ==
    {data \in [status : ExportStatuses, error_message : ErrorMessages,
               download_url : DownloadUrls, url : DownloadUrls] :
        /\ data.status /= "error" => data.error_message = None
        /\ data.status /= "completed" => (data.download_url = None /\ data.url = None)}

\* Export.from_dict: the fields the wait loop reads;
\* download_url = data.get("download_url") or data.get("url")
ExportFromDict(data) ==
    [status |-> data.status,
     error_message |-> data.error_message,
     download_url |-> PyOr(data.download_url, data.url)]

Exports == {ExportFromDict(data) : data \in ExportDicts}

\* The value of session before the first poll.
NoResource == [status |-> "", error_message |-> None, download_url |-> None]

\* What self.status(request_id) / self.get(project_id, export_id) can return.
PolledResources(kind) == IF kind = "export_wait_for_completion" THEN Exports ELSE Sessions

NoWaitError ==
    [kind |-> "none", message |-> "", status |-> 0, details_key |-> "", details |-> NoResource]

\* APIError(message, details={key: resource.__dict__})
WaitAPIError(message, key, resource) ==
    [kind |-> "APIError", message |-> message, status |-> 0,
     details_key |-> key, details |-> resource]

\* An APIError raised by the transport inside the status fetch.
WaitTransportErrors ==
    {[kind |-> e.kind, message |-> e.message, status |-> e.status,
      details_key |-> "", details |-> NoResource] :
        e \in TransportErrors \cup {WorkspaceRequiredError}}

\* A faulty is_complete that C7 must reject: "completed" is missing from the tuple.
SessionIsComplete_ErrorOnly(session) == session.status = "error"

\* AgentBuilderSession.is_complete
SessionIsComplete(session) == session.status \in {"completed", "error"}

\* A faulty is_ready that C19 must reject: the download reference is not read.
ExportIsReady_IgnoresUrl(export) == export.status = "completed"

\* Export.is_ready
ExportIsReady(export) == export.status = "completed" /\ export.download_url /= None

\* A faulty `or` that C8 must reject: the resource's own message is ignored.
OrDefault_AlwaysDefault(x, default) == default

\* x or default
OrDefault(x, default) == IF x = None \/ x = "" THEN default ELSE x

\* A faulty deadline test that C9 must reject: it fires one tick late.
DeadlineExceeded_Late(now, start, timeout) == now - start > timeout + 1

\* time.time() - start > timeout
DeadlineExceeded(now, start, timeout) == now - start > timeout

\* The three ways one iteration of a wait loop can go on after the poll.
StepReturn(resource) == [do |-> "return", resource |-> resource, error |-> NoWaitError]

StepRaise(error) == [do |-> "raise", resource |-> NoResource, error |-> error]

StepSleep == [do |-> "sleep", resource |-> NoResource, error |-> NoWaitError]

\* A faulty plan wait that C30 must reject: is_complete is tested before the
\* error status.
WaitForPlanStep_CompleteFirst(session, now, start, timeout) ==
    IF session.status = "awaiting_confirmation" THEN StepReturn(session)
    ELSE IF SessionIsComplete(session) THEN StepReturn(session)
    ELSE IF session.status = "error"
    THEN StepRaise(WaitAPIError(OrDefault(session.error_message, "Agent builder failed"),
                                "session", session))
    ELSE IF DeadlineExceeded(now, start, timeout)
    THEN StepRaise(WaitAPIError("Timeout waiting for plan (status: " \o session.status \o ")",
                                "session", session))
    ELSE StepSleep

\* One iteration of AgentOperations.wait_for_plan after session = self.status(...)
WaitForPlanStep(session, now, start, timeout) ==
    IF session.status = "awaiting_confirmation" THEN StepReturn(session)
    ELSE IF session.status = "error"
    THEN StepRaise(WaitAPIError(OrDefault(session.error_message, "Agent builder failed"),
                                "session", session))
    ELSE IF SessionIsComplete(session) THEN StepReturn(session)
    ELSE IF DeadlineExceeded(now, start, timeout)
    THEN StepRaise(WaitAPIError("Timeout waiting for plan (status: " \o session.status \o ")",
                                "session", session))
    ELSE StepSleep

\* One iteration of AgentOperations.wait_for_completion after session = self.status(...)
AgentWaitForCompletionStep(session, now, start, timeout) ==
    IF session.status = "completed" THEN StepReturn(session)
    ELSE IF session.status = "error"
    THEN StepRaise(WaitAPIError(OrDefault(session.error_message, "Agent builder failed"),
                                "session", session))
    ELSE IF DeadlineExceeded(now, start, timeout)
    THEN StepRaise(WaitAPIError("Timeout waiting for completion (status: " \o session.status \o ")",
                                "session", session))
    ELSE StepSleep

\* One iteration of ExportOperations.wait_for_completion after export = self.get(...)
ExportWaitForCompletionStep(export, now, start, timeout) ==
    IF ExportIsReady(export) THEN StepReturn(export)
    ELSE IF export.status = "error"
    THEN StepRaise(WaitAPIError(OrDefault(export.error_message, "Export failed"),
                                "export", export))
    ELSE IF DeadlineExceeded(now, start, timeout)
    THEN StepRaise(WaitAPIError("Timeout waiting for export (status: " \o export.status \o ")",
                                "export", export))
    ELSE StepSleep

\* A faulty iteration that C25 must reject: the deadline is tested before the
\* status of the polled resource.
WaitStep_DeadlineFirst(kind, resource, now, start, timeout) ==
    IF DeadlineExceeded(now, start, timeout)
    THEN StepRaise(WaitAPIError(
             (CASE kind = "wait_for_plan" -> "Timeout waiting for plan (status: "
                [] kind = "agent_wait_for_completion" -> "Timeout waiting for completion (status: "
                [] kind = "export_wait_for_completion" -> "Timeout waiting for export (status: ")
             \o resource.status \o ")",
             IF kind = "export_wait_for_completion" THEN "export" ELSE "session", resource))
    ELSE CASE kind = "wait_for_plan" -> WaitForPlanStep(resource, now, start, timeout)
           [] kind = "agent_wait_for_completion" ->
                  AgentWaitForCompletionStep(resource, now, start, timeout)
           [] kind = "export_wait_for_completion" ->
                  ExportWaitForCompletionStep(resource, now, start, timeout)

WaitStep(kind, resource, now, start, timeout) ==
    CASE kind = "wait_for_plan" -> WaitForPlanStep(resource, now, start, timeout)
      [] kind = "agent_wait_for_completion" -> AgentWaitForCompletionStep(resource, now, start, timeout)
      [] kind = "export_wait_for_completion" -> ExportWaitForCompletionStep(resource, now, start, timeout)

WaitInit ==
    /\ w_kind \in WaitKinds
    /\ w_poll_interval \in 1..MaxPollInterval
    /\ w_timeout \in 0..MaxTimeout
    /\ w_pc = "start"
    /\ w_now = 0
    /\ w_start = 0
    /\ w_session = NoResource
    /\ w_polled = <<>>
    /\ w_sleeps = 0
    /\ w_fetch_time = 0
    /\ w_returned = NoResource
    /\ w_error = NoWaitError

\* start = time.time()
wait_start ==
    /\ w_pc = "start"
    /\ w_start' = w_now
    /\ w_pc' = "poll"
    /\ UNCHANGED <<w_kind, w_poll_interval, w_timeout, w_now, w_session, w_polled,
                   w_sleeps, w_fetch_time, w_returned, w_error>>

\* session = self.status(request_id) / export = self.get(...): the server answers
wait_poll_ok ==
    /\ w_pc = "poll"
    /\ \E r \in PolledResources(w_kind) :
          /\ w_session' = r
          /\ w_polled' = Append(w_polled, r)
    /\ \E d \in 0..MaxFetchDelay :
          /\ w_now' = w_now + d
          /\ w_fetch_time' = w_fetch_time + d
    /\ w_pc' = "check"
    /\ UNCHANGED <<w_kind, w_poll_interval, w_timeout, w_start, w_sleeps,
                   w_returned, w_error>>

\* A faulty status fetch that C18 must reject: when the request fails the loop
\* returns the resource it saw last.
wait_poll_fail_ReturnsStale ==
    /\ w_pc = "poll"
    /\ w_returned' = w_session
    /\ w_pc' = "returned"
    /\ UNCHANGED <<w_kind, w_poll_interval, w_timeout, w_now, w_start, w_session,
                   w_polled, w_sleeps, w_fetch_time, w_error>>

\* session = self.status(request_id) / export = self.get(...): the request fails
wait_poll_fail ==
    /\ w_pc = "poll"
    /\ \E e \in WaitTransportErrors : w_error' = e
    /\ w_pc' = "raised"
    /\ UNCHANGED <<w_kind, w_poll_interval, w_timeout, w_now, w_start, w_session,
                   w_polled, w_sleeps, w_fetch_time, w_returned>>

\* the status checks and the deadline check of one iteration
wait_check ==
    /\ w_pc = "check"
    /\ LET step == WaitStep(w_kind, w_session, w_now, w_start, w_timeout)
       IN  /\ w_pc' = CASE step.do = "return" -> "returned"
                         [] step.do = "raise" -> "raised"
                         [] step.do = "sleep" -> "sleep"
           /\ w_returned' = step.resource
           /\ w_error' = step.error
    /\ UNCHANGED <<w_kind, w_poll_interval, w_timeout, w_now, w_start, w_session,
                   w_polled, w_sleeps, w_fetch_time>>

\* time.sleep(poll_interval)
wait_sleep ==
    /\ w_pc = "sleep"
    /\ w_now' = w_now + w_poll_interval
    /\ w_sleeps' = w_sleeps + 1
    /\ w_pc' = "poll"
    /\ UNCHANGED <<w_kind, w_poll_interval, w_timeout, w_start, w_session, w_polled,
                   w_fetch_time, w_returned, w_error>>

\* No wait loop is in use (the state of this machine while another runs).
WaitParked ==
    /\ w_kind = "wait_for_plan"
    /\ w_poll_interval = 1
    /\ w_timeout = 0
    /\ w_pc = "parked"
    /\ w_now = 0
    /\ w_start = 0
    /\ w_session = NoResource
    /\ w_polled = <<>>
    /\ w_sleeps = 0
    /\ w_fetch_time = 0
    /\ w_returned = NoResource
    /\ w_error = NoWaitError

(***************************************************************************)
(* Properties of the wait loops                                            *)
(***************************************************************************)
\* The classes of the polled resources: plan wait, awaiting_confirmation and
\* completed are success; execution wait, completed is success; export wait,
\* completed with a download reference is success; error is failure; every
\* other resource is pending.
ResourceClass(kind, r) ==
    IF r.status = "error" THEN "failure"
    ELSE IF kind = "wait_for_plan" /\ r.status \in {"awaiting_confirmation", "completed"}
    THEN "success"
    ELSE IF kind = "agent_wait_for_completion" /\ r.status = "completed" THEN "success"
    ELSE IF kind = "export_wait_for_completion" /\ r.status = "completed"
            /\ r.download_url /= None
    THEN "success"
    ELSE "pending"

PolledClass(k) == ResourceClass(w_kind, w_polled[k])

\* The polls so far: n pending resources, then one of class c.
PendingsThen(c) ==
    /\ Len(w_polled) >= 1
    /\ \A k \in 1..(Len(w_polled) - 1) : PolledClass(k) = "pending"
    /\ PolledClass(Len(w_polled)) = c

\* C7: when the polled resources are n pending ones followed by a
\* success-terminal one, the wait returns the resource of poll n+1 after n+1
\* status fetches and n sleeps, and a successful poll is never followed by a
\* sleep or another poll.
C7_SuccessAfterPendings ==
    /\ (PendingsThen("success") /\ w_pc /= "check")
          => /\ w_pc = "returned"
             /\ w_returned = w_polled[Len(w_polled)]
             /\ w_sleeps = Len(w_polled) - 1
    /\ \A k \in 1..(Len(w_polled) - 1) : PolledClass(k) /= "success"

C7_Witness ==
    /\ w_pc = "returned"
    /\ w_kind = "wait_for_plan"
    /\ Len(w_polled) = 3
    /\ PendingsThen("success")
    /\ w_returned.status = "completed"
    /\ w_sleeps = 2

\* The generic failure message of a wait loop.
GenericFailure(kind) ==
    IF kind = "export_wait_for_completion" THEN "Export failed" ELSE "Agent builder failed"

\* The key under which a wait loop attaches the resource to its error.
DetailKey(kind) == IF kind = "export_wait_for_completion" THEN "export" ELSE "session"

\* C8: when a poll returns a resource with status "error", the wait fails at
\* that poll, without sleeping or polling again, with the resource's error
\* message (the generic message when it has none or an empty one) and with the
\* resource attached as error detail.
C8_FailurePropagates ==
    /\ (PendingsThen("failure") /\ w_pc /= "check")
          => LET r == w_polled[Len(w_polled)]
             IN  /\ w_pc = "raised"
                 /\ w_error.kind = "APIError"
                 /\ w_error.message = IF r.error_message \in {None, ""}
                                       THEN GenericFailure(w_kind)
                                       ELSE r.error_message
                 /\ w_error.details_key = DetailKey(w_kind)
                 /\ w_error.details = r
                 /\ w_sleeps = Len(w_polled) - 1
    /\ \A k \in 1..(Len(w_polled) - 1) : PolledClass(k) /= "failure"

C8_Witness ==
    /\ w_pc = "raised"
    /\ Len(w_polled) = 2
    /\ PendingsThen("failure")
    /\ w_polled[2].error_message = "boom"
    /\ w_error.message = "boom"

\* poll_interval = 1 s and timeout = 2.5 s in ticks of half a second, status
\* fetches take no time, no fetch failed and every polled resource is pending.
PendingForever ==
    /\ w_poll_interval = 2
    /\ w_timeout = 5
    /\ w_fetch_time = 0
    /\ w_error \notin WaitTransportErrors
    /\ \A k \in 1..Len(w_polled) : PolledClass(k) = "pending"

\* The timeout errors of the three loops.
IsTimeoutError(e) ==
    /\ e.kind = "APIError"
    /\ \E st \in SessionStatuses \cup ExportStatuses :
          e.message \in {"Timeout waiting for plan (status: " \o st \o ")",
                         "Timeout waiting for completion (status: " \o st \o ")",
                         "Timeout waiting for export (status: " \o st \o ")"}

\* C9 as stated: with poll_interval = 1, timeout = 2.5 and a status that stays
\* pending, the wait makes at most 3 poll attempts.
C9_AtMostThreePolls == PendingForever => Len(w_polled) <= 3

\* C9 as amended: the wait fails with a timeout error at the 4th poll attempt
\* (elapsed 0, 1, 2 and 3 s), after exactly 3 sleeps, and never polls a 5th time.
C9_TimeoutAtFourthPoll ==
    PendingForever =>
        /\ Len(w_polled) <= 4
        /\ w_pc = "raised" => (Len(w_polled) = 4 /\ w_sleeps = 3 /\ IsTimeoutError(w_error))
        /\ (Len(w_polled) = 4 /\ w_pc /= "check") => w_pc = "raised"
        /\ w_pc = "sleep" => Len(w_polled) <= 3

C9_Witness ==
    /\ PendingForever
    /\ w_pc = "raised"
    /\ Len(w_polled) = 4
    /\ IsTimeoutError(w_error)

\* The call returned a success-classified resource.
ExitSuccess ==
    /\ w_pc = "returned"
    /\ w_error = NoWaitError
    /\ ResourceClass(w_kind, w_returned) = "success"

\* The call failed with the error of the failure-terminal resource.
ExitFailure ==
    /\ w_pc = "raised"
    /\ PendingsThen("failure")
    /\ w_error.details_key = DetailKey(w_kind)
    /\ w_error.details = w_polled[Len(w_polled)]
    /\ w_error.message = OrDefault(w_polled[Len(w_polled)].error_message,
                                   GenericFailure(w_kind))

\* The call failed with a timeout error.
ExitTimeout ==
    /\ w_pc = "raised"
    /\ PendingsThen("pending")
    /\ IsTimeoutError(w_error)
    /\ w_error.details = w_polled[Len(w_polled)]

\* The call failed with the error the status fetch itself raised.
ExitFetchError ==
    /\ w_pc = "raised"
    /\ w_error \in WaitTransportErrors
    /\ \A k \in 1..Len(w_polled) : PolledClass(k) = "pending"

ExitCount ==
    Cardinality({x \in {"success", "failure", "timeout", "fetch"} :
        \/ x = "success" /\ ExitSuccess
        \/ x = "failure" /\ ExitFailure
        \/ x = "timeout" /\ ExitTimeout
        \/ x = "fetch" /\ ExitFetchError})

C19_ExportReadyNeedsUrl ==
    w_kind = "export_wait_for_completion" =>
        /\ w_pc = "returned"
              => /\ w_returned.status = "completed"
                 /\ w_returned.download_url /= None
                 /\ w_returned = w_polled[Len(w_polled)]
        /\ \A k \in 1..Len(w_polled) :
              (w_polled[k].status = "completed" /\ w_polled[k].download_url = None)
                  => /\ w_returned /= w_polled[k]
                     /\ (k = Len(w_polled) /\ w_pc \notin {"check", "sleep", "poll"})
                           => /\ w_pc = "raised"
                              /\ \/ w_error \in WaitTransportErrors
                                 \/ w_error.message =
                                        "Timeout waiting for export (status: completed)"

C19_Witness ==
    /\ w_kind = "export_wait_for_completion"
    /\ w_pc = "raised"
    /\ Len(w_polled) = 3
    /\ \A k \in 1..3 : w_polled[k].status = "completed" /\ w_polled[k].download_url = None
    /\ w_error.message = "Timeout waiting for export (status: completed)"
    /\ w_error.details = w_polled[3]

\* The kinds of the errors a wait loop raises for a failure-terminal resource.
FailureErrorKinds ==
    {WaitStep(kind, r, 0, 0, MaxTimeout).error.kind :
        kind \in WaitKinds, r \in {x \in Sessions \cup Exports : x.status = "error"}}

\* The kinds of the errors of a failed status fetch.
TransportErrorKinds == {e.kind : e \in WaitTransportErrors}

\* C21: the error a wait loop raises when its deadline is exceeded is of a kind
\* that is neither the kind of a transport failure nor the kind of the error
\* raised for a failure-terminal status.
C21_TimeoutKindDistinct ==
    (w_pc = "raised" /\ ExitTimeout)
        => /\ w_error.kind \notin TransportErrorKinds
           /\ w_error.kind \notin FailureErrorKinds

\* The timeout message of a wait loop for a last-seen status.
TimeoutMessage(kind, status) ==
    (CASE kind = "wait_for_plan" -> "Timeout waiting for plan (status: "
       [] kind = "agent_wait_for_completion" -> "Timeout waiting for completion (status: "
       [] kind = "export_wait_for_completion" -> "Timeout waiting for export (status: ")
    \o status \o ")"

\* The iteration of the last poll has been carried out (the poll did not fail).
Checked ==
    /\ Len(w_polled) > 0
    /\ w_pc \in {"sleep", "returned", "raised"}
    /\ w_error \notin WaitTransportErrors

\* Time elapsed since the start of the wait.
Elapsed == w_now - w_start

\* C25: the class of the polled resource is examined before the deadline. After
\* the iteration of a poll, a success-terminal resource has been returned and a
\* failure-terminal one has made the wait fail with that resource's error,
\* whatever the elapsed time; a pending one has made the wait fail with the
\* timeout error naming its status when the elapsed time exceeds the timeout
\* and sleep otherwise; a timeout error is raised at a pending poll only.
C25_ClassifiedBeforeDeadline ==
    Checked =>
        LET class == ResourceClass(w_kind, w_session)
        IN  /\ w_session = w_polled[Len(w_polled)]
            /\ class = "success" => (w_pc = "returned" /\ w_returned = w_session)
            /\ class = "failure"
                  => /\ w_pc = "raised"
                     /\ w_error.message = OrDefault(w_session.error_message,
                                                    GenericFailure(w_kind))
                     /\ w_error.details = w_session
            /\ class = "pending"
                  => IF Elapsed > w_timeout
                     THEN /\ w_pc = "raised"
                          /\ w_error.message = TimeoutMessage(w_kind, w_session.status)
                     ELSE w_pc = "sleep"
            /\ IsTimeoutError(w_error) => class = "pending"

\* a success-terminal resource polled after the deadline is returned
C25_Witness ==
    /\ Checked
    /\ w_timeout > 0
    /\ Elapsed > w_timeout
    /\ w_sleeps >= 1
    /\ ResourceClass(w_kind, w_session) = "success"
    /\ w_pc = "returned"

\* C26: with positive timeout and poll_interval and status fetches that take no
\* time, a wait that failed with the timeout error did so at an elapsed time
\* greater than timeout and at most timeout + poll_interval.
C26_OverrunAtMostOneInterval ==
    (ExitTimeout /\ w_fetch_time = 0 /\ w_timeout > 0 /\ w_poll_interval > 0)
        => /\ Elapsed > w_timeout
           /\ Elapsed <= w_timeout + w_poll_interval

\* the overrun of a whole poll_interval happens
C26_Witness ==
    /\ ExitTimeout
    /\ w_fetch_time = 0
    /\ w_timeout > 0
    /\ w_poll_interval = MaxPollInterval
    /\ Elapsed = w_timeout + w_poll_interval

\* The generic wait algorithm, one iteration after fetch_status: success returns
\* the resource; failure fails with the resource's message (the generic message
\* when absent) and the resource as detail; otherwise an elapsed time above the
\* timeout fails with the timeout error naming the last-seen status; otherwise
\* the waiter sleeps.
GenericWaitStep(class, resource, elapsed, timeout, generic_message, timeout_message, key) ==
    CASE class = "success" -> StepReturn(resource)
      [] class = "failure" ->
             StepRaise(WaitAPIError(
                 IF resource.error_message \in {None, ""} THEN generic_message
                 ELSE resource.error_message,
                 key, resource))
      [] class = "pending" ->
             IF elapsed > timeout
             THEN StepRaise(WaitAPIError(timeout_message, key, resource))
             ELSE StepSleep

\* The generic waiter as a state machine on the state of the wait loops, its
\* classify mapping being ResourceClass of the loop that runs.
GenericWaitNext ==
    \/ /\ w_pc = "start"
       /\ w_start' = w_now
       /\ w_pc' = "poll"
       /\ UNCHANGED <<w_kind, w_poll_interval, w_timeout, w_now, w_session, w_polled,
                      w_sleeps, w_fetch_time, w_returned, w_error>>
    \/ /\ w_pc = "poll"
       /\ w_pc' = "check"
       /\ Len(w_polled') = Len(w_polled) + 1
       /\ w_polled' = Append(w_polled, w_session')
       /\ w_now' >= w_now
       /\ w_fetch_time' - w_fetch_time = w_now' - w_now
       /\ UNCHANGED <<w_kind, w_poll_interval, w_timeout, w_start, w_sleeps,
                      w_returned, w_error>>
    \/ /\ w_pc = "poll"
       /\ w_pc' = "raised"
       /\ w_error' \in WaitTransportErrors
       /\ UNCHANGED <<w_kind, w_poll_interval, w_timeout, w_now, w_start, w_session,
                      w_polled, w_sleeps, w_fetch_time, w_returned>>
    \/ /\ w_pc = "check"
       /\ LET g == GenericWaitStep(ResourceClass(w_kind, w_session), w_session,
                                   w_now - w_start, w_timeout, GenericFailure(w_kind),
                                   TimeoutMessage(w_kind, w_session.status),
                                   DetailKey(w_kind))
          IN  /\ w_pc' = (IF g.do = "return" THEN "returned"
                          ELSE IF g.do = "raise" THEN "raised" ELSE "sleep")
              /\ w_returned' = g.resource
              /\ w_error' = g.error
       /\ UNCHANGED <<w_kind, w_poll_interval, w_timeout, w_now, w_start, w_session,
                      w_polled, w_sleeps, w_fetch_time>>
    \/ /\ w_pc = "sleep"
       /\ w_now' = w_now + w_poll_interval
       /\ w_sleeps' = w_sleeps + 1
       /\ w_pc' = "poll"
       /\ UNCHANGED <<w_kind, w_poll_interval, w_timeout, w_start, w_session, w_polled,
                      w_fetch_time, w_returned, w_error>>

\* C27: every step of each of the three wait loops is a step of the generic
\* wait algorithm instantiated with the loop's classify mapping: the same
\* fetches and sleeps in the same order and, after each fetch, the same
\* outcome (the resource returned, the error raised with its message and
\* detail, or the sleep).
C27_RefinesGenericWait == [][GenericWaitNext]_w_vars

\* the execution wait treats awaiting_confirmation as pending and returns the
\* completed session of its second poll
C27_Witness ==
    /\ w_kind = "agent_wait_for_completion"
    /\ w_pc = "returned"
    /\ Len(w_polled) = 2
    /\ w_polled[1].status = "awaiting_confirmation"
    /\ w_returned.status = "completed"
    /\ w_sleeps = 1

\* C30: no wait loop returns a resource with status "error": a session returned
\* by wait_for_plan has status awaiting_confirmation or completed, a session
\* returned by AgentOperations.wait_for_completion has status completed, and an
\* export returned by ExportOperations.wait_for_completion has status
\* completed; a polled resource with status "error" ends the wait in an error.
C30_NeverReturnsError ==
    /\ w_pc = "returned"
          => /\ w_returned.status /= "error"
             /\ w_returned = w_polled[Len(w_polled)]
             /\ w_kind = "wait_for_plan"
                   => w_returned.status \in {"awaiting_confirmation", "completed"}
             /\ w_kind = "agent_wait_for_completion" => w_returned.status = "completed"
             /\ w_kind = "export_wait_for_completion" => w_returned.status = "completed"
    /\ (Checked /\ w_session.status = "error") => w_pc = "raised"

\* wait_for_plan returns a completed session through its is_complete test
C30_Witness ==
    /\ w_pc = "returned"
    /\ w_kind = "wait_for_plan"
    /\ w_returned.status = "completed"
    /\ SessionIsComplete(w_returned)
    /\ Len(w_polled) = 2

(***************************************************************************)
(* TemplateOperations.import_template                                      *)
(***************************************************************************)
VARIABLES
    t_projects,        \* the project dicts of the template; data["projects"] is the
                       \* same list, so the payload and the template share them
    t_auto_rename,     \* argument auto_rename
    t_max_retries,     \* argument max_retries
    t_pc,              \* position in import_template
    t_original_names,  \* local variable original_names
    t_suffix,          \* local variable suffix
    t_submissions,     \* the projects of every payload posted, in order
    t_to_fetch,        \* the values of instantiated_objects still to visit
    t_fetched,         \* the real ids whose detail fetch was issued, in order
    t_swallowed,       \* the errors of the detail fetches that failed, in order
    t_result,          \* local variable projects / the returned list
    t_conflict,        \* the error of the last failed submission, NoImportError
                       \* once a submission has succeeded
    t_error,           \* the error import_template raised, NoImportError if none
    t_call,            \* how many times import_template was called with the template
    t_given,           \* the project dicts as the caller built the template
    t_instantiated,    \* the values of instantiated_objects of the successful post
    t_fetch_ok,        \* for each detail fetch issued, whether it succeeded
    t_created,         \* server side: for each project of the payload, the names
                       \* under which the attempts of this call created it
    t_partial          \* server side: how many projects of a batch the server
                       \* creates before it reports a conflict

t_vars == <<t_projects, t_auto_rename, t_max_retries, t_pc, t_original_names, t_suffix,
            t_submissions, t_to_fetch, t_fetched, t_swallowed, t_result, t_conflict,
            t_error, t_call, t_given, t_instantiated, t_fetch_ok, t_created,
            t_partial>>

ProjectNames == {"A", "B"}

\* A project dict of a template: its "name" key may be missing.
TemplateProjects ==
    {[has_name |-> TRUE, name |-> n] : n \in ProjectNames}
    \cup {[has_name |-> FALSE, name |-> ""]}

\* str.lower() on the letters that occur in the error texts of the model.
LowerChar(c) ==
    CASE c = "D" -> "d" [] c = "U" -> "u" [] c = "P" -> "p" [] c = "L" -> "l"
      [] c = "I" -> "i" [] c = "C" -> "c" [] c = "A" -> "a" [] c = "T" -> "t"
      [] c = "E" -> "e" [] c = "N" -> "n" [] c = "M" -> "m" [] c = "F" -> "f"
      [] OTHER -> c

RECURSIVE Lower(_)
Lower(str) ==
    IF Len(str) = 0 THEN ""
    ELSE LowerChar(SubSeq(str, 1, 1)) \o Lower(SubSeq(str, 2, Len(str)))

\* needle in haystack
Contains(haystack, needle) ==
    \E k \in 1..(Len(haystack) - Len(needle) + 1) :
        SubSeq(haystack, k, k + Len(needle) - 1) = needle

\* The APIErrors the import endpoint can answer with: message is str(e),
\* details is str(e.details), "" when the details are empty.
ImportErrors ==
    [kind : {"APIError"},
     message : {"duplicate_name", "A project with a Duplicate Name exists", "Forbidden"},
     status : {409},
     details : {"", "{'error': {'code': 'DUPLICATE_NAME'}}", "{'error': 'forbidden'}"}]

NoImportError == [kind |-> "none", message |-> "", status |-> 0, details |-> ""]

\* An APIError of a project detail fetch.
FetchErrors ==
    {[kind |-> "APIError", message |-> "Not found", status |-> 404, details |-> ""],
     [kind |-> "APIError", message |-> "duplicate_name", status |-> 409, details |-> ""]}

\* is_duplicate = "duplicate_name" in str(e).lower() or "duplicate name" in
\* str(e).lower() or (e.details and "duplicate_name" in str(e.details).lower())
IsDuplicate(e) ==
    \/ Contains(Lower(e.message), "duplicate_name")
    \/ Contains(Lower(e.message), "duplicate name")
    \/ (e.details /= "" /\ Contains(Lower(e.details), "duplicate_name"))

\* p.get("name", "Unnamed")
GetName(project) == IF project.has_name THEN project.name ELSE "Unnamed"

\* original_names = [p.get("name", "Unnamed") for p in data.get("projects", [])]
OriginalNames(projects) == [k \in 1..Len(projects) |-> GetName(projects[k])]

\* A faulty rename that C10 must reject: the suffix is appended to the project's
\* current name.
RenameProjects_FromCurrent(projects, original_names, suffix) ==
    [k \in 1..Len(projects) |->
        [has_name |-> TRUE,
         name |-> GetName(projects[k]) \o " (" \o ToString(suffix) \o ")"]]

\* A faulty rename that C14 must reject: every project counts its own suffix.
RenameProjects_PerItem(projects, original_names, suffix) ==
    [k \in 1..Len(projects) |->
        [has_name |-> TRUE,
         name |-> original_names[k] \o " (" \o ToString(suffix + k - 1) \o ")"]]

\* for i, project in enumerate(...): project["name"] = f"{original_names[i]} ({suffix})"
RenameProjects(projects, original_names, suffix) ==
    [k \in 1..Len(projects) |->
        [has_name |-> TRUE,
         name |-> original_names[k] \o " (" \o ToString(suffix) \o ")"]]

\* auto_rename = not getattr(args, "no_auto_rename", False)
CmdAutoRename(no_auto_rename) == ~no_auto_rename

\* A faulty retry test that C11 must reject: one retry too many.
MustReraise_OffByOne(e, auto_rename, suffix, max_retries) ==
    ~IsDuplicate(e) \/ ~auto_rename \/ suffix > max_retries

\* A faulty retry test that C12 must reject: every APIError is retried.
MustReraise_AnyError(e, auto_rename, suffix, max_retries) ==
    ~auto_rename \/ suffix >= max_retries

\* A faulty retry test that C13 must reject: auto_rename is not consulted.
MustReraise_IgnoresAutoRename(e, auto_rename, suffix, max_retries) ==
    ~IsDuplicate(e) \/ suffix >= max_retries

\* if not is_duplicate or not auto_rename or suffix >= max_retries: raise
MustReraise(e, auto_rename, suffix, max_retries) ==
    ~IsDuplicate(e) \/ ~auto_rename \/ suffix >= max_retries

\* The server creates the first n projects of a posted payload: each is
\* recorded under the name the payload gives it.
ServerCreates(created, projects, n) ==
    [k \in 1..Len(projects) |->
        IF k <= n THEN Append(created[k], GetName(projects[k])) ELSE created[k]]

\* Nothing has been created for any project of the payload.
NothingCreated(projects) == [k \in 1..Len(projects) |-> <<>>]

\* A value of the instantiated_objects mapping that is not a string.
NotAString == "<not a str>"

RealIds == {"p1", "p2"}

\* The 2xx answers of the import endpoint: the values of instantiated_objects
\* in iteration order, and the ids of the fallback "data" array. No two created
\* projects share an id.
ImportResults ==
    {result \in [instantiated : SeqsUpTo(RealIds \cup {NotAString}, MaxCreated),
                 data : SeqsUpTo(RealIds, 1)] :
        \A k1, k2 \in 1..Len(result.instantiated) :
            (k1 /= k2 /\ result.instantiated[k1] = result.instantiated[k2])
                => result.instantiated[k1] = NotAString}

ImportInit ==
    /\ t_projects \in SeqsUpTo(TemplateProjects, MaxProjects)
    /\ t_given = t_projects
    /\ t_call = 1
    /\ t_instantiated = <<>>
    /\ t_fetch_ok = <<>>
    /\ t_created = NothingCreated(t_projects)
    /\ t_partial \in 0..(IF Len(t_projects) = 0 THEN 0 ELSE Len(t_projects) - 1)
    /\ t_auto_rename \in {CmdAutoRename(no_auto_rename) : no_auto_rename \in BOOLEAN}
    /\ t_max_retries \in 0..MaxRetries
    /\ t_pc = "start"
    /\ t_original_names = <<>>
    /\ t_suffix = 0
    /\ t_submissions = <<>>
    /\ t_to_fetch = <<>>
    /\ t_fetched = <<>>
    /\ t_swallowed = <<>>
    /\ t_result = <<>>
    /\ t_conflict = NoImportError
    /\ t_error = NoImportError

\* data = template.to_dict(); original_names = [...]; suffix = 0
import_start ==
    /\ t_pc = "start"
    /\ t_original_names' = OriginalNames(t_projects)
    /\ t_suffix' = 0
    /\ t_pc' = "submit"
    /\ UNCHANGED <<t_partial, t_projects, t_auto_rename, t_max_retries, t_submissions,
                   t_to_fetch, t_fetched, t_swallowed, t_result, t_conflict, t_error,
                   t_call, t_given, t_instantiated, t_fetch_ok, t_created>>

\* workspace_post("/projects/import_from_template", data) succeeds
import_submit_ok ==
    /\ t_pc = "submit"
    /\ t_submissions' = Append(t_submissions, t_projects)
    /\ t_created' = ServerCreates(t_created, t_projects, Len(t_projects))
    /\ t_conflict' = NoImportError
    /\ \E result \in ImportResults :
          /\ t_instantiated' = result.instantiated
          /\ IF Len(result.instantiated) > 0
             THEN /\ t_to_fetch' = result.instantiated
                  /\ t_result' = <<>>
                  /\ t_pc' = "fetch"
             ELSE /\ t_to_fetch' = <<>>
                  /\ t_result' = result.data
                  /\ t_pc' = "returned"
    /\ UNCHANGED <<t_partial, t_projects, t_auto_rename, t_max_retries, t_original_names,
                   t_suffix, t_fetched, t_swallowed, t_error, t_call, t_given, t_fetch_ok>>

\* for real_id in instantiated.values(): a value that is not a str is skipped
import_fetch_skip ==
    /\ t_pc = "fetch"
    /\ Len(t_to_fetch) > 0
    /\ Head(t_to_fetch) = NotAString
    /\ t_to_fetch' = Tail(t_to_fetch)
    /\ UNCHANGED <<t_partial, t_projects, t_auto_rename, t_max_retries, t_pc, t_original_names,
                   t_suffix, t_submissions, t_fetched, t_swallowed, t_result, t_conflict,
                   t_error, t_call, t_given, t_instantiated, t_fetch_ok, t_created>>

\* proj = workspace_get(f"/projects/{real_id}"); projects.append(...)
import_fetch_ok ==
    /\ t_pc = "fetch"
    /\ Len(t_to_fetch) > 0
    /\ Head(t_to_fetch) /= NotAString
    /\ t_fetched' = Append(t_fetched, Head(t_to_fetch))
    /\ t_result' = Append(t_result, Head(t_to_fetch))
    /\ t_to_fetch' = Tail(t_to_fetch)
    /\ t_fetch_ok' = Append(t_fetch_ok, TRUE)
    /\ UNCHANGED <<t_partial, t_projects, t_auto_rename, t_max_retries, t_pc, t_original_names,
                   t_suffix, t_submissions, t_swallowed, t_conflict, t_error,
                   t_call, t_given, t_instantiated, t_created>>

\* A faulty detail fetch that C16 must reject: the APIError of the fetch leaves
\* import_template.
import_fetch_fail_Propagates ==
    /\ t_pc = "fetch"
    /\ Len(t_to_fetch) > 0
    /\ Head(t_to_fetch) /= NotAString
    /\ \E e \in FetchErrors : t_error' = e
    /\ t_pc' = "raised"
    /\ t_fetched' = Append(t_fetched, Head(t_to_fetch))
    /\ t_to_fetch' = Tail(t_to_fetch)
    /\ t_fetch_ok' = Append(t_fetch_ok, FALSE)
    /\ UNCHANGED <<t_partial, t_projects, t_auto_rename, t_max_retries, t_original_names,
                   t_suffix, t_submissions, t_result, t_conflict, t_swallowed,
                   t_call, t_given, t_instantiated, t_created>>

\* workspace_get(f"/projects/{real_id}") raises APIError: except APIError: pass
import_fetch_fail ==
    /\ t_pc = "fetch"
    /\ Len(t_to_fetch) > 0
    /\ Head(t_to_fetch) /= NotAString
    /\ \E e \in FetchErrors : t_swallowed' = Append(t_swallowed, e)
    /\ t_fetched' = Append(t_fetched, Head(t_to_fetch))
    /\ t_to_fetch' = Tail(t_to_fetch)
    /\ t_fetch_ok' = Append(t_fetch_ok, FALSE)
    /\ UNCHANGED <<t_partial, t_projects, t_auto_rename, t_max_retries, t_pc, t_original_names,
                   t_suffix, t_submissions, t_result, t_conflict, t_error,
                   t_call, t_given, t_instantiated, t_created>>

\* return projects
import_return ==
    /\ t_pc = "fetch"
    /\ Len(t_to_fetch) = 0
    /\ t_pc' = "returned"
    /\ UNCHANGED <<t_partial, t_projects, t_auto_rename, t_max_retries, t_original_names, t_suffix,
                   t_submissions, t_to_fetch, t_fetched, t_swallowed, t_result, t_conflict,
                   t_error, t_call, t_given, t_instantiated, t_fetch_ok, t_created>>

\* workspace_post(...) raises APIError: re-raise, or rename every project and retry
import_submit_fail ==
    /\ t_pc = "submit"
    /\ t_submissions' = Append(t_submissions, t_projects)
    /\ t_created' = ServerCreates(t_created, t_projects, t_partial)
    /\ \E e \in ImportErrors :
          /\ t_conflict' = e
          /\ IF MustReraise(e, t_auto_rename, t_suffix, t_max_retries)
             THEN /\ t_error' = e
                  /\ t_pc' = "raised"
                  /\ UNCHANGED <<t_suffix, t_projects>>
             ELSE /\ t_suffix' = t_suffix + 1
                  /\ t_projects' = RenameProjects(t_projects, t_original_names, t_suffix')
                  /\ t_pc' = "submit"
                  /\ UNCHANGED t_error
    /\ UNCHANGED <<t_partial, t_auto_rename, t_max_retries, t_original_names, t_to_fetch,
                   t_fetched, t_swallowed, t_result, t_call, t_given, t_instantiated,
                   t_fetch_ok>>

\* The caller calls import_template again with the same template object and the
\* same arguments; what the earlier call observed is forgotten.
import_again ==
    /\ t_pc \in {"returned", "raised"}
    /\ t_call < MaxCalls
    /\ t_call' = t_call + 1
    /\ t_pc' = "start"
    /\ t_original_names' = <<>>
    /\ t_suffix' = 0
    /\ t_submissions' = <<>>
    /\ t_to_fetch' = <<>>
    /\ t_fetched' = <<>>
    /\ t_swallowed' = <<>>
    /\ t_result' = <<>>
    /\ t_conflict' = NoImportError
    /\ t_error' = NoImportError
    /\ t_instantiated' = <<>>
    /\ t_fetch_ok' = <<>>
    /\ t_created' = NothingCreated(t_projects)
    /\ UNCHANGED <<t_partial, t_projects, t_auto_rename, t_max_retries, t_given>>

\* import_template is not in use (the state of this machine while another runs).
ImportParked ==
    /\ t_projects = <<>>
    /\ t_auto_rename = FALSE
    /\ t_max_retries = 0
    /\ t_pc = "parked"
    /\ t_original_names = <<>>
    /\ t_suffix = 0
    /\ t_submissions = <<>>
    /\ t_to_fetch = <<>>
    /\ t_fetched = <<>>
    /\ t_swallowed = <<>>
    /\ t_result = <<>>
    /\ t_conflict = NoImportError
    /\ t_error = NoImportError
    /\ t_call = 0
    /\ t_given = <<>>
    /\ t_instantiated = <<>>
    /\ t_fetch_ok = <<>>
    /\ t_created = <<>>
    /\ t_partial = 0

(***************************************************************************)
(* Properties of import_template                                           *)
(***************************************************************************)
\* The names a payload carries, a project without a name key counting as the
\* name the snapshot gives it.
SubmittedNames(j) == [k \in 1..Len(t_submissions[j]) |-> GetName(t_submissions[j][k])]

\* C10: the payload submitted after k >= 1 consecutive duplicate-name conflicts
\* names every project original_name + " (k)", the original being the name at
\* the first submission; originals A, B are submitted as "A (2)", "B (2)" after
\* two conflicts.
C10_SuffixFromOriginal ==
    /\ \A j \in 2..Len(t_submissions) :
          /\ Len(t_submissions[j]) = Len(t_submissions[1])
          /\ \A k \in 1..Len(t_submissions[j]) :
                /\ t_submissions[j][k].has_name
                /\ t_submissions[j][k].name =
                      SubmittedNames(1)[k] \o " (" \o ToString(j - 1) \o ")"
    /\ (Len(t_submissions) >= 3 /\ SubmittedNames(1) = <<"A", "B">>)
          => SubmittedNames(3) = <<"A (2)", "B (2)">>

C10_Witness ==
    /\ Len(t_submissions) = 3
    /\ SubmittedNames(1) = <<"A", "B">>
    /\ SubmittedNames(2) = <<"A (1)", "B (1)">>
    /\ SubmittedNames(3) = <<"A (2)", "B (2)">>
    /\ IsDuplicate(t_conflict)

\* C11: with auto_rename on and every submission answered by a duplicate-name
\* conflict, the call makes exactly max_retries + 1 submissions (3 for
\* max_retries = 2) and raises the error of the last one; no call ever makes more
\* than max_retries + 1 submissions, and one that still retries has made fewer.
C11_RetryCeiling ==
    /\ Len(t_submissions) <= t_max_retries + 1
    /\ (t_pc = "submit" /\ t_auto_rename) => Len(t_submissions) = t_suffix
    /\ (t_pc = "raised" /\ t_auto_rename /\ IsDuplicate(t_error))
          => /\ Len(t_submissions) = t_max_retries + 1
             /\ t_suffix = t_max_retries
             /\ t_error = t_conflict
             /\ t_max_retries = 2 => Len(t_submissions) = 3

C11_Witness ==
    /\ t_pc = "raised"
    /\ t_auto_rename
    /\ t_max_retries = 2
    /\ IsDuplicate(t_error)
    /\ Len(t_submissions) = 3
    /\ t_error = t_conflict

\* C12: an APIError of the first submission that is no duplicate-name conflict
\* is raised at once and unchanged: one submission, no retry, every project
\* named as the caller named it.
C12_NonDuplicatePassthrough ==
    (t_conflict /= NoImportError /\ ~IsDuplicate(t_conflict))
        => /\ t_pc = "raised"
           /\ t_error = t_conflict
           /\ t_projects = t_submissions[Len(t_submissions)]
           /\ Len(t_submissions) = 1
                 => (t_suffix = 0 /\ t_projects = t_given)

C12_Witness ==
    /\ t_pc = "raised"
    /\ t_auto_rename
    /\ t_max_retries > 0
    /\ Len(t_submissions) = 1
    /\ t_error.message = "Forbidden"
    /\ Len(t_projects) > 0

\* C13: with auto_rename false a duplicate-name conflict of the first submission
\* is raised unchanged: one submission is made and the payload's project names
\* stay as the caller gave them.
C13_NoAutoRenamePassthrough ==
    ~t_auto_rename
        => /\ Len(t_submissions) <= 1
           /\ t_suffix = 0
           /\ t_projects = t_given
           /\ t_conflict /= NoImportError
                 => (t_pc = "raised" /\ t_error = t_conflict)

C13_Witness ==
    /\ ~t_auto_rename
    /\ t_max_retries > 0
    /\ t_pc = "raised"
    /\ IsDuplicate(t_error)
    /\ Len(t_submissions) = 1
    /\ SubmittedNames(1) = <<"A", "B">>

\* The suffix indices project k carries at submission j: 0 stands for the
\* original name, i >= 1 for the original name followed by " (i)".
SuffixIndices(j, k) ==
    LET name == GetName(t_submissions[j][k])
        original == t_original_names[k]
    IN  {i \in 0..Len(t_submissions) :
            name = IF i = 0 THEN original
                   ELSE original \o " (" \o ToString(i) \o ")"}

\* C14: at the j-th submission of a call every project of the payload carries
\* suffix index j - 1 and no other (none at the first submission, " (k)" after
\* the k-th conflict), so no two projects of one batch differ in their suffix
\* index.
C14_SameSuffixIndex ==
    \A j \in 1..Len(t_submissions) :
        \A k \in 1..Len(t_submissions[j]) : SuffixIndices(j, k) = {j - 1}

C14_Witness ==
    /\ Len(t_submissions) = 3
    /\ SubmittedNames(1) = <<"B", "Unnamed">>
    /\ ~t_submissions[1][2].has_name
    /\ SubmittedNames(2) = <<"B (1)", "Unnamed (1)">>
    /\ SubmittedNames(3) = <<"B (2)", "Unnamed (2)">>

\* C15: nothing of one import_template call reaches the next: when a call ends
\* the caller's template still carries the names it was built with, and a later
\* call with the same template object submits those names first.
C15_SecondCallStartsFromOriginals ==
    /\ t_pc \in {"returned", "raised"} => t_projects = t_given
    /\ (t_call >= 2 /\ Len(t_submissions) >= 1) => t_submissions[1] = t_given

\* isinstance(real_id, str)
IsStr(real_id) == real_id /= NotAString

\* The identifiers whose detail fetch succeeded, in the order of the fetches.
RECURSIVE Succeeded(_, _)
Succeeded(ids, oks) ==
    IF Len(ids) = 0 THEN <<>>
    ELSE (IF Head(oks) THEN <<Head(ids)>> ELSE <<>>) \o Succeeded(Tail(ids), Tail(oks))

\* How many detail fetches failed.
RECURSIVE Failures(_)
Failures(oks) ==
    IF Len(oks) = 0 THEN 0 ELSE (IF Head(oks) THEN 0 ELSE 1) + Failures(Tail(oks))

\* C16: after a successful submission the detail fetches follow the created
\* identifiers of instantiated_objects one by one in mapping order, the call
\* returns exactly the projects whose fetch succeeded, in that order, and an
\* APIError of a detail fetch is dropped: it is never raised and no submission
\* follows it.
C16_DetailFetches ==
    /\ Len(t_fetch_ok) = Len(t_fetched)
    /\ t_fetched \o SelectSeq(t_to_fetch, IsStr) = SelectSeq(t_instantiated, IsStr)
    /\ Len(t_instantiated) > 0 => t_result = Succeeded(t_fetched, t_fetch_ok)
    /\ (t_pc = "returned" /\ Len(t_instantiated) > 0)
          => t_fetched = SelectSeq(t_instantiated, IsStr)
    /\ Len(t_swallowed) = Failures(t_fetch_ok)
    /\ Len(t_fetched) > 0
          => /\ t_pc \in {"fetch", "returned"}
             /\ t_error = NoImportError

C16_Witness ==
    /\ t_pc = "returned"
    /\ t_instantiated = <<"p2", "p1">>
    /\ t_fetch_ok = <<FALSE, TRUE>>
    /\ IsDuplicate(t_swallowed[1])
    /\ t_result = <<"p1">>
    /\ Len(t_submissions) = 1
    /\ t_auto_rename

\* C17: over the attempts of one call no project of the payload is created on
\* the server more than once, also when the server creates part of a batch
\* before it reports the conflict.
C17_NoProjectCreatedTwice ==
    \A k \in 1..Len(t_created) : Len(t_created[k]) <= 1

(***************************************************************************)
(* APIClient._make_request                                                 *)
(***************************************************************************)
VARIABLES
    r_api_key,         \* self.api_key, None when not configured
    r_pc,              \* "idle", "sent" (inside urlopen), "returned", "raised"
    r_method,          \* the HTTP method of the invocation
    r_has_body,        \* whether data is given (a body is sent)
    r_calls,           \* urlopen calls made by the current invocation
    r_invocations,     \* invocations of _make_request begun so far
    r_total_calls,     \* urlopen calls made by all invocations
    r_result,          \* the dict the invocation returned
    r_error            \* the exception the invocation raised

r_vars == <<r_api_key, r_pc, r_method, r_has_body, r_calls, r_invocations,
            r_total_calls, r_result, r_error>>

Methods == {"GET", "POST", "PUT", "DELETE"}

\* api_key or os.environ.get("V7_GO_API_KEY")
ApiKeys == {None, "", "key-1"}

NoResponse == "<no result>"

\* The 2xx bodies: empty, a JSON object, or text that is no JSON.
OkBodies == {"", "{\"id\": \"p1\"}", "<html>"}

HttpCodes == {404, 409, 500}

\* str(e) of an HTTPError
HttpErrorStr(code) ==
    "HTTP Error " \o ToString(code) \o ": " \o
        (CASE code = 404 -> "Not Found" [] code = 409 -> "Conflict"
           [] OTHER -> "Internal Server Error")

\* The shapes of an error body: {"error": "..."}, {"error": {"message": "..."}},
\* {"error": {}}, {"error": 5}, {} (no "error" key), a JSON list, no JSON.
ErrorBodies ==
    {"error_str", "error_dict_message", "error_dict_empty", "error_number",
     "no_error_key", "json_list", "not_json"}

\* The exception the except urllib.error.HTTPError clause raises.
HttpErrorRaised(code, body) ==
    CASE body = "error_str" ->
            [kind |-> "APIError", message |-> "boom", status |-> code, has_details |-> TRUE]
      [] body = "error_dict_message" ->
            [kind |-> "APIError", message |-> "boom", status |-> code, has_details |-> TRUE]
      [] body \in {"error_dict_empty", "no_error_key", "error_number"} ->
            [kind |-> "APIError", message |-> HttpErrorStr(code), status |-> code,
             has_details |-> TRUE]
      [] body = "json_list" ->
            [kind |-> "AttributeError", message |-> "'list' object has no attribute 'get'",
             status |-> 0, has_details |-> FALSE]
      [] body = "not_json" ->
            [kind |-> "APIError", message |-> HttpErrorStr(code), status |-> code,
             has_details |-> FALSE]

NoRequestError == [kind |-> "none", message |-> "", status |-> 0, has_details |-> FALSE]

RequestAPIError(message) ==
    [kind |-> "APIError", message |-> message, status |-> 0, has_details |-> FALSE]

\* if not self.api_key
ApiKeyMissing(api_key) == api_key = None \/ api_key = ""

TransportInit ==
    /\ r_api_key \in ApiKeys
    /\ r_pc = "idle"
    /\ r_method \in Methods
    /\ r_has_body \in BOOLEAN
    /\ r_calls = 0
    /\ r_invocations = 1
    /\ r_total_calls = 0
    /\ r_result = NoResponse
    /\ r_error = NoRequestError

\* api_key = self._ensure_api_key() raises
request_no_key ==
    /\ r_pc = "idle"
    /\ ApiKeyMissing(r_api_key)
    /\ r_error' = RequestAPIError("V7_GO_API_KEY environment variable not set")
    /\ r_pc' = "raised"
    /\ UNCHANGED <<r_api_key, r_method, r_has_body, r_calls, r_invocations,
                   r_total_calls, r_result>>

\* url, headers, body are built and urllib.request.urlopen(req, ...) is called
request_send ==
    /\ r_pc = "idle"
    /\ ~ApiKeyMissing(r_api_key)
    /\ r_calls' = r_calls + 1
    /\ r_total_calls' = r_total_calls + 1
    /\ r_pc' = "sent"
    /\ UNCHANGED <<r_api_key, r_method, r_has_body, r_invocations, r_result, r_error>>

\* a 2xx response: return json.loads(response_data), {"success": True} for an
\* empty body, APIError for a body that is no JSON
response_ok ==
    /\ r_pc = "sent"
    /\ \E body \in OkBodies :
          IF body = ""
          THEN r_result' = "{\"success\": true}" /\ r_pc' = "returned" /\ UNCHANGED r_error
          ELSE IF body = "<html>"
          THEN /\ r_error' = RequestAPIError("Invalid JSON response: Expecting value")
               /\ r_pc' = "raised"
               /\ UNCHANGED r_result
          ELSE r_result' = body /\ r_pc' = "returned" /\ UNCHANGED r_error
    /\ UNCHANGED <<r_api_key, r_method, r_has_body, r_calls, r_invocations, r_total_calls>>

\* except urllib.error.HTTPError as e
response_http_error ==
    /\ r_pc = "sent"
    /\ \E code \in HttpCodes, body \in ErrorBodies : r_error' = HttpErrorRaised(code, body)
    /\ r_pc' = "raised"
    /\ UNCHANGED <<r_api_key, r_method, r_has_body, r_calls, r_invocations,
                   r_total_calls, r_result>>

\* A faulty except clause that C20 must reject: a connection error is answered
\* by calling urlopen again.
response_url_error_Retries ==
    /\ r_pc = "sent"
    /\ r_calls <= MaxInvocations
    /\ r_calls' = r_calls + 1
    /\ r_total_calls' = r_total_calls + 1
    /\ UNCHANGED <<r_api_key, r_pc, r_method, r_has_body, r_invocations, r_result, r_error>>

\* except urllib.error.URLError as e
response_url_error ==
    /\ r_pc = "sent"
    /\ r_error' = RequestAPIError("Connection error: refused")
    /\ r_pc' = "raised"
    /\ UNCHANGED <<r_api_key, r_method, r_has_body, r_calls, r_invocations,
                   r_total_calls, r_result>>

\* except TimeoutError
response_timeout ==
    /\ r_pc = "sent"
    /\ r_error' = RequestAPIError("Request timed out after 60 seconds")
    /\ r_pc' = "raised"
    /\ UNCHANGED <<r_api_key, r_method, r_has_body, r_calls, r_invocations,
                   r_total_calls, r_result>>

\* The client is used for another get, post, put or delete.
request_again ==
    /\ r_pc \in {"returned", "raised"}
    /\ r_invocations < MaxInvocations
    /\ r_invocations' = r_invocations + 1
    /\ r_method' \in Methods
    /\ r_has_body' \in BOOLEAN
    /\ r_calls' = 0
    /\ r_result' = NoResponse
    /\ r_error' = NoRequestError
    /\ r_pc' = "idle"
    /\ UNCHANGED <<r_api_key, r_total_calls>>

\* No request is in use (the state of this machine while another runs).
TransportParked ==
    /\ r_api_key = None
    /\ r_pc = "parked"
    /\ r_method = "GET"
    /\ r_has_body = FALSE
    /\ r_calls = 0
    /\ r_invocations = 0
    /\ r_total_calls = 0
    /\ r_result = NoResponse
    /\ r_error = NoRequestError

(***************************************************************************)
(* Properties of _make_request                                             *)
(***************************************************************************)
\* C20 as stated: an invocation that has ended, in a result or in an error, has
\* made exactly one network call.
C20_ExactlyOneCall == r_pc \in {"returned", "raised"} => r_calls = 1

\* C20 as amended: an invocation makes at most one network call and never a
\* second one after a failure: exactly one when an API key is configured, and
\* none when it is not, in which case it fails with the APIError of the missing
\* key.
C20_AtMostOneCall ==
    /\ r_calls <= 1
    /\ r_total_calls <= r_invocations
    /\ r_pc \in {"sent", "returned", "raised"}
          => r_calls = (IF ApiKeyMissing(r_api_key) THEN 0 ELSE 1)
    /\ ApiKeyMissing(r_api_key)
          => /\ r_pc \in {"idle", "raised"}
             /\ r_total_calls = 0
             /\ r_pc = "raised"
                   => r_error = RequestAPIError("V7_GO_API_KEY environment variable not set")
    /\ ~ApiKeyMissing(r_api_key)
          => r_total_calls = r_invocations - (IF r_pc = "idle" THEN 1 ELSE 0)

C20_Witness ==
    /\ r_pc = "raised"
    /\ r_invocations = 2
    /\ r_calls = 1
    /\ r_total_calls = 2
    /\ r_error.message = "Connection error: refused"

(***************************************************************************)
(* APIClient.paginate_response                                             *)
(***************************************************************************)
VARIABLES
    pr_pc,             \* "start", "returned", "raised"
    pr_workspace,      \* whether a workspace id is available
    pr_parser,         \* the parser argument, None when not given
    pr_limit,          \* the limit argument
    pr_offset,         \* the offset argument
    pr_result,         \* the response of the one request
    pr_page,           \* the PaginatedResponse returned
    pr_error           \* the error raised

pr_vars == <<pr_pc, pr_workspace, pr_parser, pr_limit, pr_offset, pr_result, pr_page,
             pr_error>>

NoPage == [data |-> <<>>, total_count |-> 0, offset |-> 0, limit |-> 0]

\* [parser(item) for item in data] if parser else data
ParseAll(parser, data) == [k \in 1..Len(data) |-> ApplyParser(parser, data[k])]

\* meta.get("total_count", len(data))
GetTotalOrLen(result, data) ==
    IF result.has_metadata /\ result.has_total_count THEN result.total_count ELSE Len(data)

\* PaginatedResponse(data=data, total_count=..., offset=offset, limit=limit)
PaginatedResponse(result, parser, offset, limit) ==
    LET data == ParseAll(parser, GetData(result))
    IN  [data |-> data,
         total_count |-> GetTotalOrLen(result, data),
         offset |-> offset,
         limit |-> limit]

PageInit ==
    /\ pr_pc = "start"
    /\ pr_workspace \in BOOLEAN
    /\ pr_parser \in {None, "parse"}
    /\ pr_limit \in 1..MaxPageLen
    /\ pr_offset \in 0..MaxTotal
    /\ pr_result = NoResult
    /\ pr_page = NoPage
    /\ pr_error = NoError

\* ws_path = self.workspace_path(workspace_id) raises
paginate_response_no_workspace ==
    /\ pr_pc = "start"
    /\ ~pr_workspace
    /\ pr_error' = WorkspaceRequiredError
    /\ pr_pc' = "raised"
    /\ UNCHANGED <<pr_workspace, pr_parser, pr_limit, pr_offset, pr_result, pr_page>>

\* result = self.get(...) answers; the PaginatedResponse is built and returned
paginate_response_ok ==
    /\ pr_pc = "start"
    /\ pr_workspace
    /\ \E r \in Responses :
          /\ pr_result' = r
          /\ pr_page' = PaginatedResponse(r, pr_parser, pr_offset, pr_limit)
    /\ pr_pc' = "returned"
    /\ UNCHANGED <<pr_workspace, pr_parser, pr_limit, pr_offset, pr_error>>

\* result = self.get(...) raises
paginate_response_fail ==
    /\ pr_pc = "start"
    /\ pr_workspace
    /\ \E e \in TransportErrors : pr_error' = e
    /\ pr_pc' = "raised"
    /\ UNCHANGED <<pr_workspace, pr_parser, pr_limit, pr_offset, pr_result, pr_page>>

\* paginate_response is not in use (the state of this machine while another runs).
PageParked ==
    /\ pr_pc = "parked"
    /\ pr_workspace = FALSE
    /\ pr_parser = None
    /\ pr_limit = 0
    /\ pr_offset = 0
    /\ pr_result = NoResult
    /\ pr_page = NoPage
    /\ pr_error = NoError

(***************************************************************************)
(* Properties of paginate_response                                         *)
(***************************************************************************)
\* The page carries the arguments and the items of the response.
PageTypeOK ==
    pr_pc = "returned"
        => /\ pr_page.offset = pr_offset
           /\ pr_page.limit = pr_limit
           /\ Len(pr_page.data) = Len(GetData(pr_result))

\* C22: the page returned by paginate_response holds the empty list when the
\* response lacks the data key, and total_count = 0 when the response lacks
\* metadata or total_count, the defaults paginate uses.
C22_MissingKeysDefault ==
    pr_pc = "returned"
        => /\ ~pr_result.has_data => pr_page.data = <<>>
           /\ pr_page.total_count = GetTotal(pr_result)

(***************************************************************************)
(* The command line: main, the cmd_* handlers, error_output                *)
(***************************************************************************)
VARIABLES
    c_command,         \* the handler args.func selects
    c_fields,          \* args.fields of ent create, None when not given
    c_value,           \* args.value of ent set
    c_stdin,           \* the text on standard input
    c_workspace,       \* whether a workspace id is available
    c_has_key,         \* whether V7_GO_API_KEY is set
    c_pc,              \* "start", "calling", "exited"
    c_requests,        \* network requests made
    c_sent,            \* the value the request carries
    c_stdout,          \* the objects printed on standard output
    c_stderr,          \* whether anything was printed on standard error
    c_exit,            \* the exit code of the process, -1 while it runs
    c_error            \* the error raised in the handler

c_vars == <<c_command, c_fields, c_value, c_stdin, c_workspace, c_has_key, c_pc,
            c_requests, c_sent, c_stdout, c_stderr, c_exit, c_error>>

Commands == {"projects_get", "ent_create", "ent_set", "props_add"}

ValidJsonTexts == {"{\"name\": \"x\"}", "7"}
InvalidJsonTexts == {"{\"name\":", "abc", ""}

FieldsArgs == {None, "", "-", "{\"name\": \"x\"}", "{\"name\":"}
ValueArgs == {"7", "abc"}
Stdins == {"{\"name\": \"x\"}", "abc", ""}

NoValue == [type |-> "none", text |-> ""]

\* json.loads(text): the parsed value, or JSONDecodeError
JsonLoads(text) ==
    IF text \in ValidJsonTexts
    THEN [ok |-> TRUE, value |-> [type |-> "json", text |-> text]]
    ELSE [ok |-> FALSE, value |-> NoValue]

\* if hasattr(args, "fields") and args.fields
FieldsGiven(fields) == fields # None /\ fields # ""

\* cmd_ent_create: fields = json.load(sys.stdin) or json.loads(args.fields);
\* ok = FALSE stands for the ValidationError raised on JSONDecodeError
ParseFields_FallsBack(fields, stdin) ==
    IF ~FieldsGiven(fields) THEN [ok |-> TRUE, value |-> NoValue]
    ELSE LET text == IF fields = "-" THEN stdin ELSE fields
         IN  IF JsonLoads(text).ok THEN JsonLoads(text)
             ELSE [ok |-> TRUE, value |-> [type |-> "str", text |-> text]]

ParseFields(fields, stdin) ==
    IF ~FieldsGiven(fields) THEN [ok |-> TRUE, value |-> NoValue]
    ELSE IF fields = "-" THEN JsonLoads(stdin)
    ELSE JsonLoads(fields)

\* cmd_ent_set: value = json.loads(args.value), the string itself on JSONDecodeError
ParseValue(value) ==
    IF JsonLoads(value).ok THEN JsonLoads(value).value
    ELSE [type |-> "str", text |-> value]

InvalidFieldsError ==
    [kind |-> "ValidationError", message |-> "Invalid JSON in --fields", status |-> 0]

ApiKeyError ==
    [kind |-> "APIError", message |-> "V7_GO_API_KEY environment variable not set",
     status |-> 0]

NotFoundError == [kind |-> "APIError", message |-> "Not Found", status |-> 404]

\* the errors a request that was sent can end in
CliApiErrors == TransportErrors \cup {NotFoundError}

\* CLIError.to_dict / APIError.to_dict
ToDict(e) ==
    [ok |-> FALSE,
     error |-> e.message,
     has_status |-> e.kind = "APIError" /\ e.status # 0,
     status |-> IF e.kind = "APIError" THEN e.status ELSE 0]

SuccessObject == [ok |-> TRUE, error |-> None, has_status |-> FALSE, status |-> 0]

\* the except clause of the handler: CLIError in cmd_ent_create, APIError elsewhere
Catches(command, e) ==
    IF command = "ent_create" THEN e.kind \in {"APIError", "ValidationError"}
    ELSE e.kind = "APIError"

\* error_output(error): json_output(error.to_dict()); sys.exit(1)
error_output_NoExit(e, stdout) ==
    [stdout |-> Append(stdout, ToDict(e)), stderr |-> FALSE, exit |-> 0]

error_output(e, stdout) ==
    [stdout |-> Append(stdout, ToDict(e)), stderr |-> FALSE, exit |-> 1]

\* an exception raised in the handler: error_output when the except clause
\* catches it, the interpreter's traceback and exit code 1 otherwise
Raised(command, e, stdout) ==
    IF Catches(command, e) THEN error_output(e, stdout)
    ELSE [stdout |-> stdout, stderr |-> TRUE, exit |-> 1]

\* what the SDK call of the command sends
SentValue(command, fields, stdin, value) ==
    CASE command = "ent_create" -> ParseFields(fields, stdin).value
      [] command = "ent_set" -> ParseValue(value)
      [] OTHER -> NoValue

CliInit ==
    /\ c_command \in Commands
    /\ c_fields \in FieldsArgs
    /\ c_value \in ValueArgs
    /\ c_stdin \in Stdins
    /\ c_workspace \in BOOLEAN
    /\ c_has_key \in BOOLEAN
    /\ c_pc = "start"
    /\ c_requests = 0
    /\ c_sent = NoValue
    /\ c_stdout = <<>>
    /\ c_stderr = FALSE
    /\ c_exit = -1
    /\ c_error = NoError

CliExit(out) ==
    /\ c_stdout' = out.stdout
    /\ c_stderr' = out.stderr
    /\ c_exit' = out.exit
    /\ c_pc' = "exited"

\* cmd_props_add: the notice on standard error, sys.exit(1)
cmd_props_add ==
    /\ c_pc = "start"
    /\ c_command = "props_add"
    /\ CliExit([stdout |-> c_stdout, stderr |-> TRUE, exit |-> 1])
    /\ UNCHANGED <<c_command, c_fields, c_value, c_stdin, c_workspace, c_has_key,
                   c_requests, c_sent, c_error>>

\* cmd_ent_create: json.loads fails, ValidationError, except CLIError, error_output
cmd_ent_create_invalid ==
    /\ c_pc = "start"
    /\ c_command = "ent_create"
    /\ ~ParseFields(c_fields, c_stdin).ok
    /\ c_error' = InvalidFieldsError
    /\ CliExit(Raised(c_command, InvalidFieldsError, c_stdout))
    /\ UNCHANGED <<c_command, c_fields, c_value, c_stdin, c_workspace, c_has_key,
                   c_requests, c_sent>>

\* the SDK call raises before any request: no workspace id, or no API key
cmd_sdk_refused ==
    /\ c_pc = "start"
    /\ c_command # "props_add"
    /\ c_command = "ent_create" => ParseFields(c_fields, c_stdin).ok
    /\ ~c_workspace \/ ~c_has_key
    /\ LET e == IF ~c_workspace THEN WorkspaceRequiredError ELSE ApiKeyError
       IN  /\ c_error' = e
           /\ CliExit(Raised(c_command, e, c_stdout))
    /\ UNCHANGED <<c_command, c_fields, c_value, c_stdin, c_workspace, c_has_key,
                   c_requests, c_sent>>

\* the SDK call sends its request
cmd_sdk_request ==
    /\ c_pc = "start"
    /\ c_command # "props_add"
    /\ c_command = "ent_create" => ParseFields(c_fields, c_stdin).ok
    /\ c_workspace /\ c_has_key
    /\ c_requests' = c_requests + 1
    /\ c_sent' = SentValue(c_command, c_fields, c_stdin, c_value)
    /\ c_pc' = "calling"
    /\ UNCHANGED <<c_command, c_fields, c_value, c_stdin, c_workspace, c_has_key,
                   c_stdout, c_stderr, c_exit, c_error>>

\* the request answers: success_output, the handler returns, exit code 0
cmd_sdk_ok ==
    /\ c_pc = "calling"
    /\ CliExit([stdout |-> Append(c_stdout, SuccessObject), stderr |-> FALSE, exit |-> 0])
    /\ UNCHANGED <<c_command, c_fields, c_value, c_stdin, c_workspace, c_has_key,
                   c_requests, c_sent, c_error>>

\* the request fails: except APIError as e: error_output(e)
cmd_sdk_fail ==
    /\ c_pc = "calling"
    /\ \E e \in CliApiErrors :
          /\ c_error' = e
          /\ CliExit(Raised(c_command, e, c_stdout))
    /\ UNCHANGED <<c_command, c_fields, c_value, c_stdin, c_workspace, c_has_key,
                   c_requests, c_sent>>

\* no command runs (the state of this machine while another runs).
CliParked ==
    /\ c_command = None
    /\ c_fields = None
    /\ c_value = None
    /\ c_stdin = ""
    /\ c_workspace = FALSE
    /\ c_has_key = FALSE
    /\ c_pc = "parked"
    /\ c_requests = 0
    /\ c_sent = NoValue
    /\ c_stdout = <<>>
    /\ c_stderr = FALSE
    /\ c_exit = -1
    /\ c_error = NoError

(***************************************************************************)
(* Properties of the command line                                          *)
(***************************************************************************)
\* C23: a command that has exited has exit code 0 when its operation
\* succeeded (with the result printed) and 1 when an error was reported; an
\* API error of the SDK call is printed as the structured error object and
\* the exit code is 1, never 0.
C23_ExitCodes ==
    c_pc = "exited"
        => /\ c_exit \in {0, 1}
           /\ c_exit = 0 <=> (c_error = NoError /\ ~c_stderr)
           /\ c_exit = 0 => c_stdout = <<SuccessObject>>
           /\ c_error.kind = "APIError"
                 => /\ c_exit = 1
                    /\ c_stdout = <<ToDict(c_error)>>
                    /\ c_stdout[1].error = c_error.message

\* a get the server rejects with 404: the error object is printed, exit code 1
C23_Witness ==
    /\ c_pc = "exited"
    /\ c_command = "projects_get"
    /\ c_requests = 1
    /\ c_error = NotFoundError
    /\ c_exit = 1

\* the --fields text that reaches json.loads is malformed
MalformedFields ==
    /\ c_command = "ent_create"
    /\ \/ c_fields \in InvalidJsonTexts \ {""}
       \/ c_fields = "-" /\ c_stdin \in InvalidJsonTexts

\* C24: ent create with a malformed JSON --fields argument makes no network
\* request; it ends with a ValidationError printed as the error object and
\* exit code 1.
C24_InvalidFieldsNoRequest ==
    MalformedFields
        => /\ c_requests = 0
           /\ c_pc \in {"start", "exited"}
           /\ c_pc = "exited"
                 => /\ c_error.kind = "ValidationError"
                    /\ c_stdout = <<ToDict(c_error)>>
                    /\ c_exit = 1

C24_Witness ==
    /\ MalformedFields
    /\ c_pc = "exited"
    /\ c_workspace /\ c_has_key
    /\ c_error = InvalidFieldsError
    /\ c_exit = 1

(***************************************************************************)
(* Specifications: one machine runs, the others stay parked.               *)
(***************************************************************************)
vars == <<pg_vars, w_vars, t_vars, r_vars, pr_vars, c_vars>>

InitPaginate == PaginateInit /\ WaitParked /\ ImportParked /\ TransportParked /\ PageParked /\ CliParked

NextPaginate ==
    \/ paginate_start /\ UNCHANGED <<w_vars, t_vars, r_vars, pr_vars, c_vars>>
    \/ paginate_get_ok /\ UNCHANGED <<w_vars, t_vars, r_vars, pr_vars, c_vars>>
    \/ paginate_get_fail /\ UNCHANGED <<w_vars, t_vars, r_vars, pr_vars, c_vars>>
    \/ paginate_yield /\ UNCHANGED <<w_vars, t_vars, r_vars, pr_vars, c_vars>>
    \/ paginate_advance /\ UNCHANGED <<w_vars, t_vars, r_vars, pr_vars, c_vars>>

SpecPaginate == InitPaginate /\ [][NextPaginate]_vars

\* paginate_all drives the generator to exhaustion (list(self.paginate(...))):
\* the steps of the client are taken when they can be; nothing is assumed of
\* the server, which may never answer.
FairPaginate ==
    /\ WF_vars(paginate_start /\ UNCHANGED <<w_vars, t_vars, r_vars, pr_vars, c_vars>>)
    /\ WF_vars(paginate_yield /\ UNCHANGED <<w_vars, t_vars, r_vars, pr_vars, c_vars>>)
    /\ WF_vars(paginate_advance /\ UNCHANGED <<w_vars, t_vars, r_vars, pr_vars, c_vars>>)

\* The items play no part in how the iteration ends: here the server's pages
\* hold the one item "a", any number of times.
SameItemPages ==
    \A k \in 1..Len(pg_served) : \A j \in 1..PageLen(k) : GetData(pg_served[k])[j] = "a"

NextPaginateFair ==
    \/ paginate_start /\ UNCHANGED <<w_vars, t_vars, r_vars, pr_vars, c_vars>>
    \/ paginate_get_ok /\ SameItemPages' /\ UNCHANGED <<w_vars, t_vars, r_vars, pr_vars, c_vars>>
    \/ paginate_get_fail /\ UNCHANGED <<w_vars, t_vars, r_vars, pr_vars, c_vars>>
    \/ paginate_yield /\ UNCHANGED <<w_vars, t_vars, r_vars, pr_vars, c_vars>>
    \/ paginate_advance /\ UNCHANGED <<w_vars, t_vars, r_vars, pr_vars, c_vars>>

SpecPaginateFair == InitPaginate /\ [][NextPaginateFair]_vars /\ FairPaginate

InitWait == WaitInit /\ PaginateParked /\ ImportParked /\ TransportParked /\ PageParked /\ CliParked

NextWait ==
    \/ wait_start /\ UNCHANGED <<pg_vars, t_vars, r_vars, pr_vars, c_vars>>
    \/ wait_poll_ok /\ UNCHANGED <<pg_vars, t_vars, r_vars, pr_vars, c_vars>>
    \/ wait_poll_fail /\ UNCHANGED <<pg_vars, t_vars, r_vars, pr_vars, c_vars>>
    \/ wait_check /\ UNCHANGED <<pg_vars, t_vars, r_vars, pr_vars, c_vars>>
    \/ wait_sleep /\ UNCHANGED <<pg_vars, t_vars, r_vars, pr_vars, c_vars>>

SpecWait == InitWait /\ [][NextWait]_vars

InitImport == ImportInit /\ PaginateParked /\ WaitParked /\ TransportParked /\ PageParked /\ CliParked

NextImport ==
    \/ import_start /\ UNCHANGED <<pg_vars, w_vars, r_vars, pr_vars, c_vars>>
    \/ import_submit_ok /\ UNCHANGED <<pg_vars, w_vars, r_vars, pr_vars, c_vars>>
    \/ import_fetch_skip /\ UNCHANGED <<pg_vars, w_vars, r_vars, pr_vars, c_vars>>
    \/ import_fetch_ok /\ UNCHANGED <<pg_vars, w_vars, r_vars, pr_vars, c_vars>>
    \/ import_fetch_fail /\ UNCHANGED <<pg_vars, w_vars, r_vars, pr_vars, c_vars>>
    \/ import_return /\ UNCHANGED <<pg_vars, w_vars, r_vars, pr_vars, c_vars>>
    \/ import_submit_fail /\ UNCHANGED <<pg_vars, w_vars, r_vars, pr_vars, c_vars>>

SpecImport == InitImport /\ [][NextImport]_vars


\* Repeated calls of import_template with one template object: the caller's
\* template has one project.
InitImportAgain ==
    /\ ImportInit
    /\ Len(t_projects) = 1
    /\ PaginateParked
    /\ WaitParked
    /\ TransportParked /\ PageParked /\ CliParked

NextImportAgain ==
    \/ import_start /\ UNCHANGED <<pg_vars, w_vars, r_vars, pr_vars, c_vars>>
    \/ import_submit_ok /\ UNCHANGED <<pg_vars, w_vars, r_vars, pr_vars, c_vars>>
    \/ import_fetch_skip /\ UNCHANGED <<pg_vars, w_vars, r_vars, pr_vars, c_vars>>
    \/ import_fetch_ok /\ UNCHANGED <<pg_vars, w_vars, r_vars, pr_vars, c_vars>>
    \/ import_fetch_fail /\ UNCHANGED <<pg_vars, w_vars, r_vars, pr_vars, c_vars>>
    \/ import_return /\ UNCHANGED <<pg_vars, w_vars, r_vars, pr_vars, c_vars>>
    \/ import_submit_fail /\ UNCHANGED <<pg_vars, w_vars, r_vars, pr_vars, c_vars>>
    \/ import_again /\ UNCHANGED <<pg_vars, w_vars, r_vars, pr_vars, c_vars>>

SpecImportAgain == InitImportAgain /\ [][NextImportAgain]_vars

InitTransport == TransportInit /\ PaginateParked /\ WaitParked /\ ImportParked /\ PageParked /\ CliParked

NextTransport ==
    \/ request_no_key /\ UNCHANGED <<pg_vars, w_vars, t_vars, pr_vars, c_vars>>
    \/ request_send /\ UNCHANGED <<pg_vars, w_vars, t_vars, pr_vars, c_vars>>
    \/ response_ok /\ UNCHANGED <<pg_vars, w_vars, t_vars, pr_vars, c_vars>>
    \/ response_http_error /\ UNCHANGED <<pg_vars, w_vars, t_vars, pr_vars, c_vars>>
    \/ response_url_error /\ UNCHANGED <<pg_vars, w_vars, t_vars, pr_vars, c_vars>>
    \/ response_timeout /\ UNCHANGED <<pg_vars, w_vars, t_vars, pr_vars, c_vars>>
    \/ request_again /\ UNCHANGED <<pg_vars, w_vars, t_vars, pr_vars, c_vars>>

SpecTransport == InitTransport /\ [][NextTransport]_vars

InitPage ==
    PageInit /\ PaginateParked /\ WaitParked /\ ImportParked /\ TransportParked /\ CliParked

NextPage ==
    \/ paginate_response_no_workspace /\ UNCHANGED <<pg_vars, w_vars, t_vars, r_vars, c_vars>>
    \/ paginate_response_ok /\ UNCHANGED <<pg_vars, w_vars, t_vars, r_vars, c_vars>>
    \/ paginate_response_fail /\ UNCHANGED <<pg_vars, w_vars, t_vars, r_vars, c_vars>>

SpecPage == InitPage /\ [][NextPage]_vars

InitCli ==
    /\ CliInit
    /\ PaginateParked /\ WaitParked /\ ImportParked /\ TransportParked /\ PageParked

NextCli ==
    \/ cmd_props_add /\ UNCHANGED <<pg_vars, w_vars, t_vars, r_vars, pr_vars>>
    \/ cmd_ent_create_invalid /\ UNCHANGED <<pg_vars, w_vars, t_vars, r_vars, pr_vars>>
    \/ cmd_sdk_refused /\ UNCHANGED <<pg_vars, w_vars, t_vars, r_vars, pr_vars>>
    \/ cmd_sdk_request /\ UNCHANGED <<pg_vars, w_vars, t_vars, r_vars, pr_vars>>
    \/ cmd_sdk_ok /\ UNCHANGED <<pg_vars, w_vars, t_vars, r_vars, pr_vars>>
    \/ cmd_sdk_fail /\ UNCHANGED <<pg_vars, w_vars, t_vars, r_vars, pr_vars>>

SpecCli == InitCli /\ [][NextCli]_vars

====
